---- MODULE Spec2Model ----
(***************************************************************************)
(* Four implementations of the CME212 undirected Graph container, driven   *)
(* side by side by the same sequence of calls:                             *)
(*   src/hw0/Graph-1703.hpp   explicit edge list, Edge = slot id           *)
(*   src/hw0/Graph-20558.hpp  explicit edge list of Node pairs             *)
(*   src/hw0/Graph-20862.hpp  explicit edge list of index pairs            *)
(*   src/hw1/Graph-26021.hpp  adjacency lists, with the three iterators    *)
(* C++ vectors are sequences; C++ index i is sequence position i + 1.      *)
(* Point coordinates are never computed with; a Point is one of the values *)
(* of PointValues, and Pt where the calls do not vary it.  A handle is a   *)
(* record of its data members.                                             *)
(* SpecTwo adds a second graph object of each class, on which only         *)
(* add_node and clear are called, to compare handles across graphs.        *)
(***************************************************************************)
EXTENDS Integers, Sequences, FiniteSets, TLC

\* ---------------------------------------------------------------- bounds
MaxNodes == 3

MaxEdges == 2

\* edges added to Graph-20862 when it is driven alone
MaxOrderEdges == 3

\* ------------------------------------------------------------- constants
\* address of the graph under test (the value of `this`) and nullptr
This == "G"

\* address of a second graph object of the same class
Other == "H"

Null == "nullptr"

\* an indeterminate (never initialised) data member
Uninit == "uninit"

\* the Point passed to add_node where the calls do not vary it
Pt == "P"

\* the Points add_node is called with where the calls vary it
PointValues == {Pt, "Q"}

\* the default node_value_type() of Graph-26021
DefaultValue == "v0"

\* size_type(-1), the identifier of the invalid handles of Graph-20862.  A
\* size_type is held as the 32-bit two's complement integer with the same bits,
\* and ULess compares two of them as the unsigned values they are.
NPos == -1

ULess(x, y) == IF (x < 0) = (y < 0) THEN x < y ELSE y < 0

\* ------------------------------------------------------- vector helpers
At(v, i) == v[i + 1]

PushBack(v, x) == Append(v, x)

\* v[i].push_back(x) on a vector of vectors
PushBackAt(vv, i, x) == [vv EXCEPT ![i + 1] = Append(@, x)]

Min(S) == CHOOSE x \in S : \A y \in S : x <= y

VARIABLES
  g1703_nodes,      \* Graph-1703  nodes_  : vector<internal_nodes>
  g1703_edges,      \* Graph-1703  edges_  : vector<internal_edges>
  g20558_nodes,     \* Graph-20558 m_graph_nodes
  g20558_edges,     \* Graph-20558 m_graph_edges
  g20862_Points,    \* Graph-20862 Points
  g20862_Edges,     \* Graph-20862 Edges   : vector<pair<size_type,size_type>>
  g26021_nodes,     \* Graph-26021 m_graph_nodes
  g26021_adjacency, \* Graph-26021 m_adjacency
  last,             \* the call made last, its arguments and what it was made on
  ret,              \* what each implementation returned from that call
  firstRet,         \* per connected pair, the handles its first add_edge returned
  issued,           \* the handles returned by add_node since construction or clear()
  loopCalled,       \* add_edge(a, a) was called since construction or clear()
  walk,             \* the iterator being stepped over Graph-26021, if any
  other             \* the node vectors of the second graph object of each class

vars == <<g1703_nodes, g1703_edges, g20558_nodes, g20558_edges,
          g20862_Points, g20862_Edges, g26021_nodes, g26021_adjacency,
          last, ret, firstRet, issued, loopCalled, walk, other>>

hw0Vars == <<g1703_nodes, g1703_edges, g20558_nodes, g20558_edges,
             g20862_Points, g20862_Edges>>

hw1Vars == <<g26021_nodes, g26021_adjacency>>

\* ===================================================== Graph-1703 (hw0)
\* Node(g, uid)
Node_1703(g, uid) == [g |-> g, uid |-> uid]

\* Node(): both members are left uninitialised
NodeDefault_1703 == [g |-> Uninit, uid |-> Uninit]

\* Edge(g, edgeid, node_a, node_b)
Edge_1703(g, edgeid, na, nb) == [g |-> g, edgeid |-> edgeid, node_a |-> na, node_b |-> nb]

\* Edge(): all members are left uninitialised
EdgeDefault_1703 == [g |-> Uninit, edgeid |-> Uninit, node_a |-> Uninit, node_b |-> Uninit]

size_1703(nodes) == Len(nodes)

num_edges_1703(edges) == Len(edges)

\* Node::index(): the uid stored in the node's record
index_1703(nodes, n) == At(nodes, n.uid).uid

\* the nodes_ of the graph n.g_ points to, nodes being those of this graph
NodesOf_1703(nodes, n) == IF n.g = This THEN nodes ELSE other.g1703_nodes

\* Node::position() of a node of this graph
position_1703(nodes, n) == At(nodes, n.uid).position

NodeEq_1703(x, y) == y.g = x.g /\ y.uid = x.uid

add_node_1703(nodes, position) ==
  LET node_addition == [position |-> position, uid |-> size_1703(nodes)]
  IN  [nodes |-> PushBack(nodes, node_addition),
       ret   |-> Node_1703(This, node_addition.uid)]

node_1703(nodes, i) ==
  IF i >= size_1703(nodes) THEN NodeDefault_1703 ELSE Node_1703(This, i)

Connects_1703(e, a, b) ==
  \/ NodeEq_1703(e.node_a, a) /\ NodeEq_1703(e.node_b, b)
  \/ NodeEq_1703(e.node_b, a) /\ NodeEq_1703(e.node_a, b)

has_edge_1703(edges, a, b) ==
  IF This # a.g \/ This # b.g THEN FALSE
  ELSE \E i \in 0..(Len(edges) - 1) : Connects_1703(At(edges, i), a, b)

\* add_edge without the a == b rejection
add_edge_1703_noloopcheck(nodes, edges, a, b) ==
  IF has_edge_1703(edges, a, b)
  THEN LET i == Min({j \in 0..(Len(edges) - 1) : Connects_1703(At(edges, j), a, b)})
       IN  [edges |-> edges,
            ret   |-> Edge_1703(This, i, index_1703(NodesOf_1703(nodes, a), a),
                                         index_1703(NodesOf_1703(nodes, b), b))]
  ELSE LET edge_addition == [node_a |-> a, node_b |-> b, edgeid |-> size_1703(nodes)]
       IN  [edges |-> PushBack(edges, edge_addition),
            ret   |-> Edge_1703(This, edge_addition.edgeid,
                                index_1703(NodesOf_1703(nodes, a), edge_addition.node_a),
                                index_1703(NodesOf_1703(nodes, b), edge_addition.node_b))]

add_edge_1703(nodes, edges, a, b) ==
  IF NodeEq_1703(a, b) THEN [edges |-> edges, ret |-> EdgeDefault_1703]
  ELSE IF has_edge_1703(edges, a, b)
  THEN LET i == Min({j \in 0..(Len(edges) - 1) : Connects_1703(At(edges, j), a, b)})
       IN  [edges |-> edges,
            ret   |-> Edge_1703(This, i, index_1703(NodesOf_1703(nodes, a), a),
                                         index_1703(NodesOf_1703(nodes, b), b))]
  ELSE LET edge_addition == [node_a |-> a, node_b |-> b, edgeid |-> size_1703(nodes)]
       IN  [edges |-> PushBack(edges, edge_addition),
            ret   |-> Edge_1703(This, edge_addition.edgeid,
                                index_1703(NodesOf_1703(nodes, a), edge_addition.node_a),
                                index_1703(NodesOf_1703(nodes, b), edge_addition.node_b))]

\* clear() that forgets edges_.clear()
clear_1703_keepedges(edges) == [edges |-> edges, nodes |-> <<>>]

\* edges_.clear(); nodes_.clear()
clear_1703(edges) == [edges |-> <<>>, nodes |-> <<>>]

\* has_node(n): only the graph pointer is compared
has_node_1703(n) == n.g = This

\* Node::operator<, x < y
NodeLess_1703(x, y) == y.g = x.g /\ x.uid < y.uid

\* Edge::operator==, e == f: only the edge ids are compared
EdgeEq_1703(e, f) == f.edgeid = e.edgeid

edge_1703(nodes, edges, i) ==
  IF i >= Len(edges) THEN EdgeDefault_1703
  ELSE Edge_1703(This, i, index_1703(NodesOf_1703(nodes, At(edges, i).node_a), At(edges, i).node_a),
                          index_1703(NodesOf_1703(nodes, At(edges, i).node_b), At(edges, i).node_b))

\* what a read of edges_[i] past the end of the vector may deliver as a Node
\* member, and the outcome of the program being stopped by the read
Aborted == "aborted"

GarbageNodes_1703 ==
  {Node_1703(g, u) : g \in {This, Null}, u \in 0..MaxNodes} \cup {Node_1703(Aborted, Aborted)}

\* Edge::node1(): g_->edges_[edgeid_].node_a, every value the call may deliver
node1_1703(edges, e) ==
  IF e.edgeid < Len(edges) THEN {At(edges, e.edgeid).node_a} ELSE GarbageNodes_1703

\* Edge::node2(): g_->edges_[edgeid_].node_b, every value the call may deliver
node2_1703(edges, e) ==
  IF e.edgeid < Len(edges) THEN {At(edges, e.edgeid).node_b} ELSE GarbageNodes_1703

\* ==================================================== Graph-20558 (hw0)
Node_20558(index, g) == [m_index |-> index, m_ptr_graph |-> g]

Edge_20558(index, g) == [m_index |-> index, m_ptr_graph |-> g]

size_20558(nodes) == Len(nodes)

num_edges_20558(edges) == Len(edges)

\* has_node as called on the graph at address g
has_node_20558(g, n) == n.m_ptr_graph = g

index_20558(n) == n.m_index

\* Node::position() of a node of this graph
position_20558(nodes, n) == At(nodes, n.m_index).m_node_point

NodeEq_20558(x, y) == has_node_20558(x.m_ptr_graph, y) /\ x.m_index = y.m_index

\* add_node returning Node(size(), this) instead of Node(size() - 1, this)
add_node_20558_offbyone(nodes, position) ==
  LET pushed == PushBack(nodes, [m_node_point |-> position])
      i      == size_20558(pushed)
  IN  [nodes |-> pushed, ret |-> Node_20558(i, This)]

add_node_20558(nodes, position) ==
  LET pushed == PushBack(nodes, [m_node_point |-> position])
      i      == size_20558(pushed)
  IN  [nodes |-> pushed, ret |-> Node_20558(i - 1, This)]

\* node(i) for an i that passes assert(i < size())
node_20558(i) == Node_20558(i, This)

Connects_20558(e, a, b) ==
  \/ NodeEq_20558(e.m_node1, a) /\ NodeEq_20558(e.m_node2, b)
  \/ NodeEq_20558(e.m_node1, b) /\ NodeEq_20558(e.m_node2, a)

has_edge_20558(edges, a, b) ==
  IF a.m_ptr_graph # This \/ b.m_ptr_graph # This THEN FALSE
  ELSE \E i \in 0..(num_edges_20558(edges) - 1) : Connects_20558(At(edges, i), a, b)

\* add_edge recognising a stored pair in the order of its arguments only
add_edge_20558_sameorder(edges, a, b) ==
  LET found == IF a.m_ptr_graph = This /\ b.m_ptr_graph = This
               THEN {i \in 0..(num_edges_20558(edges) - 1) :
                       NodeEq_20558(At(edges, i).m_node1, a) /\ NodeEq_20558(At(edges, i).m_node2, b)}
               ELSE {}
  IN  IF found # {}
      THEN [edges |-> edges, ret |-> Edge_20558(Min(found), This)]
      ELSE LET pushed == PushBack(edges, [m_node1 |-> a, m_node2 |-> b])
               i      == num_edges_20558(pushed)
           IN  [edges |-> pushed, ret |-> Edge_20558(i - 1, This)]

add_edge_20558(edges, a, b) ==
  LET found == IF a.m_ptr_graph = This /\ b.m_ptr_graph = This
               THEN {i \in 0..(num_edges_20558(edges) - 1) : Connects_20558(At(edges, i), a, b)}
               ELSE {}
  IN  IF found # {}
      THEN [edges |-> edges, ret |-> Edge_20558(Min(found), This)]
      ELSE LET pushed == PushBack(edges, [m_node1 |-> a, m_node2 |-> b])
               i      == num_edges_20558(pushed)
           IN  [edges |-> pushed, ret |-> Edge_20558(i - 1, This)]

clear_20558 == [nodes |-> <<>>, edges |-> <<>>]

\* Edge::node1() and Edge::node2() of a handle whose slot exists
node1_20558(edges, e) == At(edges, e.m_index).m_node1

node2_20558(edges, e) == At(edges, e.m_index).m_node2

\* Node::operator<, x < y: only the indices are compared
NodeLess_20558(x, y) == x.m_index < index_20558(y)

\* ==================================================== Graph-20862 (hw0)
Node_20862(i, g) == [id |-> i, graph |-> g]

NodeDefault_20862 == [id |-> NPos, graph |-> Null]

Edge_20862(i, g) == [id |-> i, graph |-> g]

EdgeDefault_20862 == [id |-> NPos, graph |-> Null]

size_20862(Points) == Len(Points)

num_edges_20862(Edges) == Len(Edges)

index_20862(n) == n.id

node_20862(Points, i) ==
  IF ~ULess(i, Len(Points)) THEN NodeDefault_20862 ELSE Node_20862(i, This)

edge_20862(Edges, i) ==
  IF ULess(Len(Edges), i) THEN EdgeDefault_20862 ELSE Edge_20862(i, This)

\* Node::position() of a node of this graph
position_20862(Points, n) == At(Points, n.id)

\* add_node putting the Point in front of the stored ones
add_node_20862_front(Points, position) ==
  LET pushed == <<position>> \o Points
  IN  [nodes |-> pushed, ret |-> node_20862(pushed, Len(pushed) - 1)]

add_node_20862(Points, position) ==
  LET pushed == PushBack(Points, position)
  IN  [nodes |-> pushed, ret |-> node_20862(pushed, Len(pushed) - 1)]

\* std::find(Edges.begin(), Edges.end(), p) - Edges.begin()
Find_20862(Edges, p) ==
  LET hits == {i \in 0..(Len(Edges) - 1) : At(Edges, i) = p}
  IN  IF hits = {} THEN Len(Edges) ELSE Min(hits)

has_edge_20862(Edges, a, b) ==
  LET edge1 == <<a.id, b.id>>
      edge2 == <<b.id, a.id>>
  IN  IF Find_20862(Edges, edge1) # Len(Edges) THEN TRUE
      ELSE IF Find_20862(Edges, edge2) # Len(Edges) THEN TRUE
      ELSE FALSE

\* add_edge putting a new pair in front of the stored ones
add_edge_20862_front(Edges, a, b) ==
  LET edge1 == <<a.id, b.id>>
      edge2 == <<b.id, a.id>>
      pos1  == Find_20862(Edges, edge1)
      pos2  == Find_20862(Edges, edge2)
  IN  IF pos1 # Len(Edges) THEN [edges |-> Edges, ret |-> edge_20862(Edges, pos1)]
      ELSE IF pos2 # Len(Edges) THEN [edges |-> Edges, ret |-> edge_20862(Edges, pos1)]
      ELSE LET pushed == <<edge1>> \o Edges
           IN  [edges |-> pushed, ret |-> edge_20862(pushed, Len(pushed) - 1)]

add_edge_20862(Edges, a, b) ==
  LET edge1 == <<a.id, b.id>>
      edge2 == <<b.id, a.id>>
      pos1  == Find_20862(Edges, edge1)
      pos2  == Find_20862(Edges, edge2)
  IN  IF pos1 # Len(Edges) THEN [edges |-> Edges, ret |-> edge_20862(Edges, pos1)]
      ELSE IF pos2 # Len(Edges) THEN [edges |-> Edges, ret |-> edge_20862(Edges, pos1)]
      ELSE LET pushed == PushBack(Edges, edge1)
           IN  [edges |-> pushed, ret |-> edge_20862(pushed, Len(pushed) - 1)]

clear_20862 == [nodes |-> <<>>, edges |-> <<>>]

\* std::less<Graph*> on the graph pointers of two handles: false on equal
\* pointers; nullptr, the graph under test and the second graph are taken in
\* this order of address
PtrLess(g, h) ==
  LET rank(q) == IF q = Null THEN 0 ELSE IF q = This THEN 1 ELSE 2
  IN  rank(g) < rank(h)

\* Node::operator<, x < y
NodeLess_20862(x, y) ==
  IF ULess(x.id, index_20862(y)) THEN TRUE
  ELSE IF x.id = index_20862(y) THEN PtrLess(x.graph, y.graph)
  ELSE FALSE

\* Edge::node1() and Edge::node2() of a handle whose slot exists
node1_20862(Points, Edges, e) == node_20862(Points, At(Edges, e.id)[1])

node2_20862(Points, Edges, e) == node_20862(Points, At(Edges, e.id)[2])

\* Edge::operator<, e < f
EdgeLess_20862(Points, Edges, e, f) ==
  IF /\ NodeLess_20862(node1_20862(Points, Edges, e), node1_20862(Points, Edges, f))
     /\ NodeLess_20862(node2_20862(Points, Edges, e), node2_20862(Points, Edges, f))
  THEN TRUE
  ELSE FALSE

\* Node::operator==, x == y
NodeEq_20862(x, y) == y.graph = x.graph /\ index_20862(y) = x.id

\* has_node(n): what the test n.index() > size() assigns to in_graph is
\* overwritten by in_graph = (node(n.index()) == n)
has_node_20862(Points, n) ==
  LET in_graph == NodeEq_20862(node_20862(Points, index_20862(n)), n)
  IN  in_graph

\* ==================================================== Graph-26021 (hw1)
Node_26021(g, i) == [m_graph_ptr |-> g, m_node_index |-> i]

Edge_26021(g, i, j) == [m_graph_ptr |-> g, m_node1_index |-> i, m_node2_index |-> j]

size_26021(nodes) == Len(nodes)

\* the loop of num_edges(): tmp += m_adjacency[i].size()
RECURSIVE SumSizes(_, _)
SumSizes(adj, i) ==
  IF i >= Len(adj) THEN 0 ELSE Len(At(adj, i)) + SumSizes(adj, i + 1)

num_edges_26021(adj) == SumSizes(adj, 0) \div 2

index_26021(n) == n.m_node_index

degree_26021(adj, n) == Len(At(adj, n.m_node_index))

\* the assertion at the head of has_node, for the graph whose nodes are given
has_node_assert_26021(nodes, n) == n.m_node_index < size_26021(nodes)

has_node_26021(g, n) == n.m_graph_ptr = g

\* Node::operator== once the assertion of has_node has passed
NodeEq_26021(x, y) == has_node_26021(x.m_graph_ptr, y) /\ x.m_node_index = y.m_node_index

node1_26021(e) == Node_26021(e.m_graph_ptr, e.m_node1_index)

node2_26021(e) == Node_26021(e.m_graph_ptr, e.m_node2_index)

\* Edge::operator== comparing the endpoints in stored order only
EdgeEq_26021_ordered(e, f) ==
  NodeEq_26021(node1_26021(e), node1_26021(f)) /\ NodeEq_26021(node2_26021(e), node2_26021(f))

EdgeEq_26021(e, f) ==
  \/ NodeEq_26021(node1_26021(e), node1_26021(f)) /\ NodeEq_26021(node2_26021(e), node2_26021(f))
  \/ NodeEq_26021(node1_26021(e), node2_26021(f)) /\ NodeEq_26021(node2_26021(e), node1_26021(f))

add_node_26021(nodes, adj, position) ==
  LET n      == [m_node_point |-> position, m_node_value |-> DefaultValue]
      pushed == PushBack(nodes, n)
  IN  [nodes |-> pushed,
       adj   |-> PushBack(adj, <<>>),
       ret   |-> Node_26021(This, size_26021(pushed) - 1)]

\* node(i) for an i that passes assert(i < size())
node_26021(i) == Node_26021(This, i)

\* the scan shared by has_edge and add_edge: some tmp[i] == index
Scan_26021(adj, a, b) ==
  LET tmp   == At(adj, a.m_node_index)
      index == b.m_node_index
  IN  \E i \in 0..(Len(tmp) - 1) : At(tmp, i) = index

has_edge_26021(adj, a, b) ==
  IF a.m_graph_ptr # This \/ b.m_graph_ptr # This THEN FALSE
  ELSE Scan_26021(adj, a, b)

\* add_edge pushing each index onto its own entry
add_edge_26021_selfpush(adj, a, b) ==
  IF a.m_graph_ptr = This /\ b.m_graph_ptr = This /\ Scan_26021(adj, a, b)
  THEN [adj |-> adj, ret |-> Edge_26021(This, a.m_node_index, b.m_node_index)]
  ELSE LET adj1 == PushBackAt(adj, b.m_node_index, b.m_node_index)
           adj2 == PushBackAt(adj1, a.m_node_index, a.m_node_index)
       IN  [adj |-> adj2, ret |-> Edge_26021(This, a.m_node_index, b.m_node_index)]

\* add_edge recording the edge on a's side only
add_edge_26021_oneway(adj, a, b) ==
  IF a.m_graph_ptr = This /\ b.m_graph_ptr = This /\ Scan_26021(adj, a, b)
  THEN [adj |-> adj, ret |-> Edge_26021(This, a.m_node_index, b.m_node_index)]
  ELSE [adj |-> PushBackAt(adj, a.m_node_index, b.m_node_index),
        ret |-> Edge_26021(This, a.m_node_index, b.m_node_index)]

\* add_edge without the scan for an existing entry
add_edge_26021_noscan(adj, a, b) ==
  LET adj1 == PushBackAt(adj, b.m_node_index, a.m_node_index)
      adj2 == PushBackAt(adj1, a.m_node_index, b.m_node_index)
  IN  [adj |-> adj2, ret |-> Edge_26021(This, a.m_node_index, b.m_node_index)]

add_edge_26021(adj, a, b) ==
  IF a.m_graph_ptr = This /\ b.m_graph_ptr = This /\ Scan_26021(adj, a, b)
  THEN [adj |-> adj, ret |-> Edge_26021(This, a.m_node_index, b.m_node_index)]
  ELSE LET adj1 == PushBackAt(adj, b.m_node_index, a.m_node_index)
           adj2 == PushBackAt(adj1, a.m_node_index, b.m_node_index)
       IN  [adj |-> adj2, ret |-> Edge_26021(This, a.m_node_index, b.m_node_index)]

\* m_graph_nodes.clear(); m_adjacency.clear()
clear_26021 == [nodes |-> <<>>, adj |-> <<>>]

\* a node value other than the default
NewValue == "v1"

\* Node::value() read: m_graph_nodes[m_node_index].m_node_value
\* Node::position()
position_26021(nodes, n) == At(nodes, n.m_node_index).m_node_point

value_26021(nodes, n) == At(nodes, n.m_node_index).m_node_value

\* n.value() = v assigning to a copy of the stored value
set_value_26021_copy(nodes, n, v) == nodes

\* n.value() = v through the reference value() returns
set_value_26021(nodes, n, v) == [nodes EXCEPT ![n.m_node_index + 1].m_node_value = v]

\* ----------------------------------------------- Graph-26021 NodeIterator
NodeIterator_26021(g, i) == [m_graph_ptr |-> g, m_node_index |-> i]

node_begin_26021 == NodeIterator_26021(This, 0)

node_end_26021(nodes) == NodeIterator_26021(This, size_26021(nodes))

\* operator* returning the node after the iterator's position
NodeIterDeref_26021_next(it) == Node_26021(it.m_graph_ptr, it.m_node_index + 1)

NodeIterDeref_26021(it) == Node_26021(it.m_graph_ptr, it.m_node_index)

NodeIterIncr_26021(it) == [it EXCEPT !.m_node_index = @ + 1]

NodeIterEq_26021(x, y) ==
  x.m_node_index = y.m_node_index /\ x.m_graph_ptr = y.m_graph_ptr

\* ------------------------------------------- Graph-26021 IncidentIterator
IncidentIterator_26021(g, n, p) == [m_graph_ptr |-> g, m_node_index |-> n, m_incident_index |-> p]

node_edge_begin_26021(n) == IncidentIterator_26021(n.m_graph_ptr, n.m_node_index, 0)

node_edge_end_26021(adj, n) ==
  IncidentIterator_26021(n.m_graph_ptr, n.m_node_index, Len(At(adj, n.m_node_index)))

\* operator* building the edge from the neighbour's side
IncidentDeref_26021_swapped(adj, it) ==
  Edge_26021(it.m_graph_ptr, At(At(adj, it.m_node_index), it.m_incident_index), it.m_node_index)

IncidentDeref_26021(adj, it) ==
  Edge_26021(it.m_graph_ptr, it.m_node_index, At(At(adj, it.m_node_index), it.m_incident_index))

IncidentIncr_26021(it) == [it EXCEPT !.m_incident_index = @ + 1]

IncidentEq_26021(x, y) ==
  /\ x.m_graph_ptr = y.m_graph_ptr
  /\ x.m_node_index = y.m_node_index
  /\ x.m_incident_index = y.m_incident_index

\* ----------------------------------------------- Graph-26021 EdgeIterator
EdgeIterator_26021(g, n, p) == [m_graph_ptr |-> g, m_node1_index |-> n, m_edge_index |-> p]

edge_begin_26021 == EdgeIterator_26021(This, 0, 0)

edge_end_26021(adj) == EdgeIterator_26021(This, Len(adj), 0)

\* operator* reads m_adjacency[m_node1_index][m_edge_index] unchecked; the read
\* is inside both vectors only when this holds
EdgeDerefInBounds_26021(adj, it) ==
  /\ it.m_node1_index < Len(adj)
  /\ it.m_edge_index < Len(At(adj, it.m_node1_index))

EdgeDeref_26021(adj, it) ==
  Edge_26021(it.m_graph_ptr, it.m_node1_index, At(At(adj, it.m_node1_index), it.m_edge_index))

\* the two nested while loops of operator++, entered after ++m_edge_index
RECURSIVE EdgeSeek_26021(_, _, _)
EdgeSeek_26021(adj, n, p) ==
  IF n < Len(adj)
  THEN IF p < Len(At(adj, n))
       THEN IF n < At(At(adj, n), p)
            THEN EdgeIterator_26021(This, n, p)
            ELSE EdgeSeek_26021(adj, n, p + 1)
       ELSE EdgeSeek_26021(adj, n + 1, 0)
  ELSE EdgeIterator_26021(This, n, p)

\* operator++ stepping to the first position of the next node without a seek
EdgeIncr_26021_nextnode(adj, it) == EdgeIterator_26021(This, it.m_node1_index + 1, 0)

EdgeIncr_26021(adj, it) == EdgeSeek_26021(adj, it.m_node1_index, it.m_edge_index + 1)

EdgeIterEq_26021(x, y) ==
  /\ x.m_graph_ptr = y.m_graph_ptr
  /\ x.m_node1_index = y.m_node1_index
  /\ x.m_edge_index = y.m_edge_index

\* the number of times the loops of operator++ execute ++m_edge_index or
\* ++m_node1_index when entered at (n, p)
RECURSIVE EdgeSeekAdvances_26021(_, _, _)
EdgeSeekAdvances_26021(adj, n, p) ==
  IF n < Len(adj)
  THEN IF p < Len(At(adj, n))
       THEN IF n < At(At(adj, n), p)
            THEN 0
            ELSE 1 + EdgeSeekAdvances_26021(adj, n, p + 1)
       ELSE 1 + EdgeSeekAdvances_26021(adj, n + 1, 0)
  ELSE 0

\* the same count for one operator++, its leading ++m_edge_index included
EdgeIncrAdvances_26021(adj, it) ==
  1 + EdgeSeekAdvances_26021(adj, it.m_node1_index, it.m_edge_index + 1)

\* std::next(it, i): i applications of operator++
RECURSIVE EdgeNext_26021(_, _, _)
EdgeNext_26021(adj, it, i) ==
  IF i = 0 THEN it ELSE EdgeNext_26021(adj, EdgeIncr_26021(adj, it), i - 1)

\* what operator* may deliver when its read of m_adjacency is out of range: an
\* Edge with any second index, or the program stopped by the read
GarbageEdges_26021(it) ==
  {Edge_26021(This, it.m_node1_index, v) : v \in 0..MaxNodes} \cup {Edge_26021(Aborted, 0, 0)}

\* edge(i) for an i that passes assert(i < num_edges()): every value
\* *(std::next(edge_begin(), i)) may deliver
edge_26021(adj, i) ==
  LET it == EdgeNext_26021(adj, edge_begin_26021, i)
  IN  IF EdgeDerefInBounds_26021(adj, it) THEN {EdgeDeref_26021(adj, it)}
      ELSE GarbageEdges_26021(it)

\* ===================================================== the calling program
\* what an out-of-bounds read of a size_type may deliver
Garbage == 0..MaxNodes

NoRet == [kind |-> "none"]

NoRets == [g1703 |-> NoRet, g20558 |-> NoRet, g20862 |-> NoRet, g26021 |-> NoRet]

NoWalk == [kind |-> "none", it |-> NoRet, derefd |-> FALSE, out |-> <<>>]

\* a pair {a, b} on which add_edge was already called since construction/clear
Called(a, b) ==
  \E k \in 1..Len(firstRet) :
     {firstRet[k].a, firstRet[k].b} = {a, b}

Init ==
  /\ g1703_nodes = <<>>
  /\ g1703_edges = <<>>
  /\ g20558_nodes = <<>>
  /\ g20558_edges = <<>>
  /\ g20862_Points = <<>>
  /\ g20862_Edges = <<>>
  /\ g26021_nodes = <<>>
  /\ g26021_adjacency = <<>>
  /\ last = [op |-> "construct"]
  /\ ret = NoRets
  /\ firstRet = <<>>
  /\ issued = <<>>
  /\ loopCalled = FALSE
  /\ walk = NoWalk
  /\ other = [g1703_nodes |-> <<>>, g20558_nodes |-> <<>>, g20862_Points |-> <<>>,
              g26021_nodes |-> <<>>, g26021_adjacency |-> <<>>]

\* ------------------------------ the four graphs driven by the same calls
\* g.add_node(Point) on each of the four graphs
AddNode ==
  /\ Len(g26021_nodes) < MaxNodes
  /\ LET r1 == add_node_1703(g1703_nodes, Pt)
         r2 == add_node_20558(g20558_nodes, Pt)
         r3 == add_node_20862(g20862_Points, Pt)
         r4 == add_node_26021(g26021_nodes, g26021_adjacency, Pt)
     IN  /\ g1703_nodes' = r1.nodes
         /\ g20558_nodes' = r2.nodes
         /\ g20862_Points' = r3.nodes
         /\ g26021_nodes' = r4.nodes
         /\ g26021_adjacency' = r4.adj
         /\ ret' = [g1703 |-> r1.ret, g20558 |-> r2.ret, g20862 |-> r3.ret, g26021 |-> r4.ret]
  /\ last' = [op |-> "add_node", afterClear |-> (last.op = "clear"),
               cleared |-> IF last.op = "clear" THEN last.nodes ELSE 0]
  /\ issued' = Append(issued, ret')
  /\ UNCHANGED <<g1703_edges, g20558_edges, g20862_Edges, firstRet, loopCalled, walk, other>>

\* g.add_edge(g.node(a), g.node(b)) on each of the four graphs
CallAddEdge(a, b) ==
  /\ Called(a, b) \/ Len(firstRet) < MaxEdges
  /\ LET r1 == add_edge_1703(g1703_nodes, g1703_edges, node_1703(g1703_nodes, a), node_1703(g1703_nodes, b))
         r2 == add_edge_20558(g20558_edges, node_20558(a), node_20558(b))
         r3 == add_edge_20862(g20862_Edges, node_20862(g20862_Points, a), node_20862(g20862_Points, b))
         r4 == add_edge_26021(g26021_adjacency, node_26021(a), node_26021(b))
         rs == [g1703 |-> r1.ret, g20558 |-> r2.ret, g20862 |-> r3.ret, g26021 |-> r4.ret]
     IN  /\ g1703_edges' = r1.edges
         /\ g20558_edges' = r2.edges
         /\ g20862_Edges' = r3.edges
         /\ g26021_adjacency' = r4.adj
         /\ ret' = rs
         /\ firstRet' = IF Called(a, b) THEN firstRet
                        ELSE Append(firstRet, [a |-> a, b |-> b, ret |-> rs])
  /\ last' = [op |-> "add_edge", a |-> a, b |-> b]
  /\ loopCalled' = (loopCalled \/ a = b)
  /\ UNCHANGED <<g1703_nodes, g20558_nodes, g20862_Points, g26021_nodes, issued, walk, other>>

\* add_edge on two distinct valid nodes
AddEdge ==
  \E a, b \in 0..(Len(g26021_nodes) - 1) : a # b /\ CallAddEdge(a, b)

\* add_edge(a, a) on a valid node
AddSelfLoop ==
  \E a \in 0..(Len(g26021_nodes) - 1) : CallAddEdge(a, a)

\* g.clear() on each of the four graphs
Clear ==
  /\ g1703_edges' = clear_1703(g1703_edges).edges
  /\ g1703_nodes' = clear_1703(g1703_edges).nodes
  /\ g20558_nodes' = clear_20558.nodes
  /\ g20558_edges' = clear_20558.edges
  /\ g20862_Points' = clear_20862.nodes
  /\ g20862_Edges' = clear_20862.edges
  /\ g26021_nodes' = clear_26021.nodes
  /\ g26021_adjacency' = clear_26021.adj
  /\ last' = [op |-> "clear", nodes |-> Len(g26021_nodes), edges |-> Len(firstRet),
               stale |-> issued]
  /\ ret' = NoRets
  /\ firstRet' = <<>>
  /\ issued' = <<>>
  /\ loopCalled' = FALSE
  /\ UNCHANGED <<walk, other>>

Next ==
  \/ AddNode
  \/ AddEdge
  \/ AddSelfLoop
  \/ Clear

Spec == Init /\ [][Next]_vars

\* ------------------------- two graph objects of each class, G and H
\* a handle as the member function running with this == Other builds it
OfOther(h, ptr) == [h EXCEPT ![ptr] = Other]

\* h.add_node(Point) on the second graph object of each class
OtherAddNode ==
  /\ Len(other.g26021_nodes) < MaxNodes
  /\ LET r1 == add_node_1703(other.g1703_nodes, Pt)
         r2 == add_node_20558(other.g20558_nodes, Pt)
         r3 == add_node_20862(other.g20862_Points, Pt)
         r4 == add_node_26021(other.g26021_nodes, other.g26021_adjacency, Pt)
     IN  /\ other' = [g1703_nodes |-> r1.nodes, g20558_nodes |-> r2.nodes,
                      g20862_Points |-> r3.nodes,
                      g26021_nodes |-> r4.nodes, g26021_adjacency |-> r4.adj]
         /\ ret' = [g1703  |-> OfOther(r1.ret, "g"),
                    g20558 |-> OfOther(r2.ret, "m_ptr_graph"),
                    g20862 |-> OfOther(r3.ret, "graph"),
                    g26021 |-> OfOther(r4.ret, "m_graph_ptr")]
  /\ last' = [op |-> "other.add_node"]
  /\ UNCHANGED <<hw0Vars, hw1Vars, firstRet, issued, loopCalled, walk>>

\* h.clear() on the second graph object of each class
OtherClear ==
  /\ other' = [g1703_nodes |-> clear_1703(<<>>).nodes, g20558_nodes |-> clear_20558.nodes,
               g20862_Points |-> clear_20862.nodes,
               g26021_nodes |-> clear_26021.nodes, g26021_adjacency |-> clear_26021.adj]
  /\ last' = [op |-> "other.clear"]
  /\ ret' = NoRets
  /\ UNCHANGED <<hw0Vars, hw1Vars, firstRet, issued, loopCalled, walk>>

\* the valid Node handles of the two Graph-1703 objects
Handles_1703 ==
  {issued[k].g1703 : k \in 1..Len(issued)}
     \cup {OfOther(node_1703(other.g1703_nodes, i), "g") : i \in 0..(size_1703(other.g1703_nodes) - 1)}

\* g.add_edge(x, y) on the Graph-1703 object alone, x or y being a valid node
\* of the second Graph-1703 object
AddEdgeForeign1703 ==
  /\ num_edges_1703(g1703_edges) < MaxEdges
  /\ \E x, y \in Handles_1703 :
        /\ x.g = Other \/ y.g = Other
        /\ ~NodeEq_1703(x, y)
        /\ LET r1 == add_edge_1703(g1703_nodes, g1703_edges, x, y)
           IN  /\ g1703_edges' = r1.edges
               /\ ret' = [NoRets EXCEPT !.g1703 = r1.ret]
        /\ last' = [op |-> "add_edge_foreign", x |-> x, y |-> y]
  /\ UNCHANGED <<g1703_nodes, g20558_nodes, g20558_edges, g20862_Points, g20862_Edges,
                 hw1Vars, firstRet, issued, loopCalled, walk, other>>

NextTwo ==
  \/ AddNode
  \/ AddEdge
  \/ Clear
  \/ OtherAddNode
  \/ OtherClear

SpecTwo == Init /\ [][NextTwo]_vars

\* ----------------- the four graphs, nodes added at varying Points
\* g.add_node(p) on each of the four graphs; the handles returned are dropped
FrameAddNode ==
  /\ Len(g26021_nodes) < MaxNodes
  /\ \E p \in PointValues :
        LET r1 == add_node_1703(g1703_nodes, p)
            r2 == add_node_20558(g20558_nodes, p)
            r3 == add_node_20862(g20862_Points, p)
            r4 == add_node_26021(g26021_nodes, g26021_adjacency, p)
        IN  /\ g1703_nodes' = r1.nodes
            /\ g20558_nodes' = r2.nodes
            /\ g20862_Points' = r3.nodes
            /\ g26021_nodes' = r4.nodes
            /\ g26021_adjacency' = r4.adj
  /\ last' = [op |-> "add_node", afterClear |-> FALSE, cleared |-> 0]
  /\ UNCHANGED <<g1703_edges, g20558_edges, g20862_Edges, ret, firstRet, issued, loopCalled,
                 walk, other>>

\* g.add_edge(g.node(a), g.node(b)) on each of the four graphs, a and b
\* distinct valid nodes; the handles returned are dropped
FrameAddEdge ==
  \E a, b \in 0..(Len(g26021_nodes) - 1) :
     /\ a # b
     /\ \/ has_edge_20862(g20862_Edges, node_20862(g20862_Points, a), node_20862(g20862_Points, b))
        \/ num_edges_20862(g20862_Edges) < MaxEdges
     /\ LET r1 == add_edge_1703(g1703_nodes, g1703_edges, node_1703(g1703_nodes, a), node_1703(g1703_nodes, b))
            r2 == add_edge_20558(g20558_edges, node_20558(a), node_20558(b))
            r3 == add_edge_20862(g20862_Edges, node_20862(g20862_Points, a), node_20862(g20862_Points, b))
            r4 == add_edge_26021(g26021_adjacency, node_26021(a), node_26021(b))
        IN  /\ g1703_edges' = r1.edges
            /\ g20558_edges' = r2.edges
            /\ g20862_Edges' = r3.edges
            /\ g26021_adjacency' = r4.adj
     /\ last' = [op |-> "add_edge"]
     /\ UNCHANGED <<g1703_nodes, g20558_nodes, g20862_Points, g26021_nodes, ret, firstRet,
                    issued, loopCalled, walk, other>>

NextFrame ==
  \/ FrameAddNode
  \/ FrameAddEdge

SpecFrame == Init /\ [][NextFrame]_vars

\* ------------------------------------------------- Graph-20862 alone
\* g.add_node(Point)
OrderAddNode ==
  /\ size_20862(g20862_Points) < MaxNodes
  /\ LET r3 == add_node_20862(g20862_Points, Pt)
     IN  /\ g20862_Points' = r3.nodes
         /\ ret' = [NoRets EXCEPT !.g20862 = r3.ret]
  /\ last' = [op |-> "add_node", afterClear |-> FALSE, cleared |-> 0]
  /\ UNCHANGED <<g1703_nodes, g1703_edges, g20558_nodes, g20558_edges, g20862_Edges,
                 hw1Vars, firstRet, issued, loopCalled, walk, other>>

\* g.add_edge(g.node(a), g.node(b)) on two distinct valid nodes
OrderAddEdge ==
  \E a, b \in 0..(size_20862(g20862_Points) - 1) :
     /\ a # b
     /\ \/ has_edge_20862(g20862_Edges, node_20862(g20862_Points, a), node_20862(g20862_Points, b))
        \/ num_edges_20862(g20862_Edges) < MaxOrderEdges
     /\ LET r3 == add_edge_20862(g20862_Edges, node_20862(g20862_Points, a),
                                 node_20862(g20862_Points, b))
        IN  /\ g20862_Edges' = r3.edges
            /\ ret' = [NoRets EXCEPT !.g20862 = r3.ret]
     /\ last' = [op |-> "add_edge", a |-> a, b |-> b]
     /\ UNCHANGED <<g1703_nodes, g1703_edges, g20558_nodes, g20558_edges, g20862_Points,
                    hw1Vars, firstRet, issued, loopCalled, walk, other>>

NextOrder ==
  \/ OrderAddNode
  \/ OrderAddEdge

SpecOrder == Init /\ [][NextOrder]_vars

\* nodes added to both objects, and edges to foreign nodes added to Graph-1703
NextForeign ==
  \/ AddNode
  \/ OtherAddNode
  \/ AddEdgeForeign1703

SpecForeign == Init /\ [][NextForeign]_vars

\* ------------------------------- Graph-26021 alone, with its three iterators
\* a crashed program makes no further call
Running == walk.kind # "crashed"

IterStep == [op |-> "iterate"]

\* g.add_node(Point)
IterAddNode ==
  /\ Running
  /\ Len(g26021_nodes) < MaxNodes
  /\ LET r4 == add_node_26021(g26021_nodes, g26021_adjacency, Pt)
     IN  /\ g26021_nodes' = r4.nodes
         /\ g26021_adjacency' = r4.adj
         /\ ret' = [NoRets EXCEPT !.g26021 = r4.ret]
  /\ last' = [op |-> "add_node", afterClear |-> (last.op = "clear"),
               cleared |-> IF last.op = "clear" THEN last.nodes ELSE 0]
  /\ issued' = Append(issued, ret')
  /\ walk' = NoWalk
  /\ UNCHANGED <<other, hw0Vars, firstRet, loopCalled>>

\* g.add_edge(g.node(a), g.node(b))
IterCallAddEdge(a, b) ==
  /\ Running
  /\ \/ has_edge_26021(g26021_adjacency, node_26021(a), node_26021(b))
     \/ num_edges_26021(g26021_adjacency) < MaxEdges
  /\ LET r4 == add_edge_26021(g26021_adjacency, node_26021(a), node_26021(b))
     IN  /\ g26021_adjacency' = r4.adj
         /\ ret' = [NoRets EXCEPT !.g26021 = r4.ret]
  /\ last' = [op |-> "add_edge", a |-> a, b |-> b]
  /\ loopCalled' = (loopCalled \/ a = b)
  /\ walk' = NoWalk
  /\ UNCHANGED <<other, hw0Vars, g26021_nodes, firstRet, issued>>

IterAddEdge ==
  \E a, b \in 0..(Len(g26021_nodes) - 1) : a # b /\ IterCallAddEdge(a, b)

IterAddSelfLoop ==
  \E a \in 0..(Len(g26021_nodes) - 1) : IterCallAddEdge(a, a)

\* g.clear()
IterClear ==
  /\ Running
  /\ g26021_nodes' = clear_26021.nodes
  /\ g26021_adjacency' = clear_26021.adj
  /\ last' = [op |-> "clear", nodes |-> Len(g26021_nodes),
               edges |-> num_edges_26021(g26021_adjacency), stale |-> issued]
  /\ ret' = NoRets
  /\ issued' = <<>>
  /\ loopCalled' = FALSE
  /\ walk' = NoWalk
  /\ UNCHANGED <<other, hw0Vars, firstRet>>

\* it = g.edge_begin()
EdgeWalkBegin ==
  /\ Running
  /\ walk' = [kind |-> "edge", it |-> edge_begin_26021, derefd |-> FALSE, out |-> <<>>]
  /\ last' = IterStep
  /\ ret' = NoRets
  /\ UNCHANGED <<other, hw0Vars, hw1Vars, firstRet, issued, loopCalled>>

\* the loop test it != g.edge_end() has passed: e = *it
EdgeWalkDeref ==
  /\ walk.kind = "edge"
  /\ ~walk.derefd
  /\ ~EdgeIterEq_26021(walk.it, edge_end_26021(g26021_adjacency))
  /\ IF EdgeDerefInBounds_26021(g26021_adjacency, walk.it)
     THEN walk' = [walk EXCEPT !.derefd = TRUE,
                               !.out = Append(@, EdgeDeref_26021(g26021_adjacency, walk.it))]
     ELSE \/ \E v \in Garbage :
               walk' = [walk EXCEPT !.derefd = TRUE,
                                    !.out = Append(@, Edge_26021(This, walk.it.m_node1_index, v))]
          \/ walk' = [walk EXCEPT !.kind = "crashed"]
  /\ UNCHANGED <<other, hw0Vars, hw1Vars, last, ret, firstRet, issued, loopCalled>>

\* ++it
EdgeWalkIncr ==
  /\ walk.kind = "edge"
  /\ walk.derefd
  /\ walk' = [walk EXCEPT !.it = EdgeIncr_26021(g26021_adjacency, walk.it), !.derefd = FALSE]
  /\ UNCHANGED <<other, hw0Vars, hw1Vars, last, ret, firstRet, issued, loopCalled>>

\* it = g.node(n).edge_begin()
IncidentWalkBegin ==
  /\ Running
  /\ \E n \in 0..(Len(g26021_nodes) - 1) :
        walk' = [kind |-> "incident", it |-> node_edge_begin_26021(node_26021(n)),
                 derefd |-> FALSE, out |-> <<>>]
  /\ last' = IterStep
  /\ ret' = NoRets
  /\ UNCHANGED <<other, hw0Vars, hw1Vars, firstRet, issued, loopCalled>>

\* the node whose incident edges are being walked
WalkNode == Node_26021(walk.it.m_graph_ptr, walk.it.m_node_index)

\* the loop test it != n.edge_end() has passed: e = *it
IncidentWalkDeref ==
  /\ walk.kind = "incident"
  /\ ~walk.derefd
  /\ ~IncidentEq_26021(walk.it, node_edge_end_26021(g26021_adjacency, WalkNode))
  /\ walk' = [walk EXCEPT !.derefd = TRUE,
                          !.out = Append(@, IncidentDeref_26021(g26021_adjacency, walk.it))]
  /\ UNCHANGED <<other, hw0Vars, hw1Vars, last, ret, firstRet, issued, loopCalled>>

\* ++it
IncidentWalkIncr ==
  /\ walk.kind = "incident"
  /\ walk.derefd
  /\ walk' = [walk EXCEPT !.it = IncidentIncr_26021(walk.it), !.derefd = FALSE]
  /\ UNCHANGED <<other, hw0Vars, hw1Vars, last, ret, firstRet, issued, loopCalled>>

\* it = g.node_begin()
NodeWalkBegin ==
  /\ Running
  /\ walk' = [kind |-> "node", it |-> node_begin_26021, derefd |-> FALSE, out |-> <<>>]
  /\ last' = IterStep
  /\ ret' = NoRets
  /\ UNCHANGED <<other, hw0Vars, hw1Vars, firstRet, issued, loopCalled>>

\* the loop test it != g.node_end() has passed: n = *it
NodeWalkDeref ==
  /\ walk.kind = "node"
  /\ ~walk.derefd
  /\ ~NodeIterEq_26021(walk.it, node_end_26021(g26021_nodes))
  /\ walk' = [walk EXCEPT !.derefd = TRUE, !.out = Append(@, NodeIterDeref_26021(walk.it))]
  /\ UNCHANGED <<other, hw0Vars, hw1Vars, last, ret, firstRet, issued, loopCalled>>

\* ++it
NodeWalkIncr ==
  /\ walk.kind = "node"
  /\ walk.derefd
  /\ walk' = [walk EXCEPT !.it = NodeIterIncr_26021(walk.it), !.derefd = FALSE]
  /\ UNCHANGED <<other, hw0Vars, hw1Vars, last, ret, firstRet, issued, loopCalled>>

\* g.node(i).value() = v
WriteValue ==
  /\ Running
  /\ \E i \in 0..(Len(g26021_nodes) - 1), v \in {DefaultValue, NewValue} :
        /\ g26021_nodes' = set_value_26021(g26021_nodes, node_26021(i), v)
        /\ last' = [op |-> "write", i |-> i, v |-> v]
  /\ ret' = NoRets
  /\ walk' = NoWalk
  /\ UNCHANGED <<other, hw0Vars, g26021_adjacency, firstRet, issued, loopCalled>>

NextIter ==
  \/ IterAddNode
  \/ IterAddEdge
  \/ IterAddSelfLoop
  \/ IterClear
  \/ EdgeWalkBegin
  \/ EdgeWalkDeref
  \/ EdgeWalkIncr
  \/ IncidentWalkBegin
  \/ IncidentWalkDeref
  \/ IncidentWalkIncr
  \/ NodeWalkBegin
  \/ NodeWalkDeref
  \/ NodeWalkIncr

SpecIter == Init /\ [][NextIter]_vars

\* Graph-26021 alone, with writes to the node values
NextValue ==
  \/ IterAddNode
  \/ IterAddEdge
  \/ IterClear
  \/ WriteValue

SpecValue == Init /\ [][NextValue]_vars

\* ================================================================ claims
\* the valid node identifiers of Graph-26021
Ids_26021 == 0..(size_26021(g26021_nodes) - 1)

\* the unordered pairs {i, j} for which has_edge(node(i), node(j)) is true
HasEdgePairs_26021 ==
  {{i, j} : <<i, j>> \in {p \in Ids_26021 \X Ids_26021 :
                            has_edge_26021(g26021_adjacency, node_26021(p[1]), node_26021(p[2]))}}

EdgePair_26021(e) == {e.m_node1_index, e.m_node2_index}

\* an edge walk that has reached edge_end()
EdgeWalkDone ==
  /\ walk.kind = "edge"
  /\ EdgeIterEq_26021(walk.it, edge_end_26021(g26021_adjacency))

\* C1: in Graph-26021, after add_node, clear and add_edge calls on distinct
\* valid nodes, stepping an EdgeIterator from edge_begin() to edge_end()
\* dereferences exactly num_edges() positions, the edges obtained are pairwise
\* unequal, and their unordered pairs are exactly the pairs of has_edge.
C1_EdgeWalkEnumeratesEdges ==
  (EdgeWalkDone /\ ~loopCalled) =>
     /\ Len(walk.out) = num_edges_26021(g26021_adjacency)
     /\ \A k, l \in 1..Len(walk.out) :
           k # l => ~EdgeEq_26021(walk.out[k], walk.out[l])
     /\ {EdgePair_26021(walk.out[k]) : k \in 1..Len(walk.out)} = HasEdgePairs_26021

\* the firstRet entry of a pair on which add_edge was already called
FirstOf(a, b) ==
  firstRet[CHOOSE k \in 1..Len(firstRet) : {firstRet[k].a, firstRet[k].b} = {a, b}]

\* C2: in Graph-26021, once add_edge(a,b) was called on distinct valid nodes,
\* has_edge(a,b) and has_edge(b,a) are true, and stay true through every
\* further add_node/add_edge until clear().
C2_AddedEdgeStays ==
  \A k \in 1..Len(firstRet) :
     firstRet[k].a # firstRet[k].b =>
        /\ has_edge_26021(g26021_adjacency, node_26021(firstRet[k].a), node_26021(firstRet[k].b))
        /\ has_edge_26021(g26021_adjacency, node_26021(firstRet[k].b), node_26021(firstRet[k].a))

\* an edge was added and then a node and another edge were added
C2_Witness ==
  /\ Len(firstRet) >= 2
  /\ firstRet[1].a # firstRet[1].b
  /\ Len(issued) > firstRet[1].a + 1
  /\ Len(issued) > firstRet[1].b + 1
  /\ Len(issued) >= 3

\* C3: in Graph-26021, a second add_edge(a,b) or add_edge(b,a) on a pair of
\* distinct nodes already connected by add_edge leaves num_edges() and every
\* adjacency entry unchanged and returns an Edge equal (operator==) to the
\* Edge the first call returned.
C3_RepeatedAddEdge ==
  [][(/\ last'.op = "add_edge"
      /\ last'.a # last'.b
      /\ Called(last'.a, last'.b))
     => /\ g26021_adjacency' = g26021_adjacency
        /\ num_edges_26021(g26021_adjacency') = num_edges_26021(g26021_adjacency)
        /\ EdgeEq_26021(ret'.g26021, FirstOf(last'.a, last'.b).ret.g26021)
        /\ EdgeEq_26021(FirstOf(last'.a, last'.b).ret.g26021, ret'.g26021)]_vars

\* add_edge(b,a) was just called on a pair first connected as add_edge(a,b)
C3_Witness ==
  /\ last.op = "add_edge"
  /\ last.a # last.b
  /\ Called(last.a, last.b)
  /\ FirstOf(last.a, last.b).a = last.b
  /\ ret.g26021 # FirstOf(last.a, last.b).ret.g26021

\* C4: in Graph-20558, Graph-20862 and Graph-26021, add_edge(a,a) on a valid
\* node never increases num_edges(), and has_edge(a,a) stays false.
C4_SelfLoopNotCounted ==
  [][(last'.op = "add_edge" /\ last'.a = last'.b)
     => /\ num_edges_20558(g20558_edges') <= num_edges_20558(g20558_edges)
        /\ num_edges_20862(g20862_Edges') <= num_edges_20862(g20862_Edges)
        /\ num_edges_26021(g26021_adjacency') <= num_edges_26021(g26021_adjacency)
        /\ ~has_edge_20558(g20558_edges', node_20558(last'.a), node_20558(last'.a))
        /\ ~has_edge_20862(g20862_Edges', node_20862(g20862_Points', last'.a),
                           node_20862(g20862_Points', last'.a))
        /\ ~has_edge_26021(g26021_adjacency', node_26021(last'.a), node_26021(last'.a))]_vars

\* C5: in Graph-1703, add_edge(a,a) on a valid node returns the default
\* (invalid) Edge and leaves num_nodes(), num_edges() and the edge list
\* unchanged.
C5_SelfLoopRejected1703 ==
  [][(last'.op = "add_edge" /\ last'.a = last'.b)
     => /\ ret'.g1703 = EdgeDefault_1703
        /\ size_1703(g1703_nodes') = size_1703(g1703_nodes)
        /\ num_edges_1703(g1703_edges') = num_edges_1703(g1703_edges)
        /\ g1703_edges' = g1703_edges]_vars

\* add_edge(a,a) was just called on a graph that has an edge stored
C5_Witness ==
  /\ last.op = "add_edge"
  /\ last.a = last.b
  /\ num_edges_1703(g1703_edges) >= 1

\* C6: in all four implementations, in a sequence of add_node calls on an empty
\* graph (add_edge calls interleaved, no clear) the k-th add_node returns a
\* handle with index() == k-1, afterwards num_nodes() == size() == k, and the
\* index of a handle issued earlier is not changed by later additions.
C6_AddNodeIndices ==
  /\ size_1703(g1703_nodes) = Len(issued)
  /\ size_20558(g20558_nodes) = Len(issued)
  /\ size_20862(g20862_Points) = Len(issued)
  /\ size_26021(g26021_nodes) = Len(issued)
  /\ \A k \in 1..Len(issued) :
        /\ index_1703(g1703_nodes, issued[k].g1703) = k - 1
        /\ index_20558(issued[k].g20558) = k - 1
        /\ index_20862(issued[k].g20862) = k - 1
        /\ index_26021(issued[k].g26021) = k - 1

\* three nodes were added with an add_edge call in between
C6_Witness ==
  /\ Len(issued) >= 3
  /\ Len(firstRet) >= 1
  /\ last.op = "add_node"

\* no edge is reported between any two nodes of any of the four graphs
NoEdgeAnywhere ==
  \A i, j \in Ids_26021 :
     /\ ~has_edge_1703(g1703_edges, node_1703(g1703_nodes, i), node_1703(g1703_nodes, j))
     /\ ~has_edge_20558(g20558_edges, node_20558(i), node_20558(j))
     /\ ~has_edge_20862(g20862_Edges, node_20862(g20862_Points, i), node_20862(g20862_Points, j))
     /\ ~has_edge_26021(g26021_adjacency, node_26021(i), node_26021(j))

\* C7: in all four implementations, after clear() num_nodes() == 0 and
\* num_edges() == 0, has_edge is false for every pair of nodes (until the next
\* add_edge), and the next add_node returns a handle with index() == 0.
C7_ClearResets ==
  /\ last.op = "clear" =>
        /\ size_1703(g1703_nodes) = 0 /\ num_edges_1703(g1703_edges) = 0
        /\ size_20558(g20558_nodes) = 0 /\ num_edges_20558(g20558_edges) = 0
        /\ size_20862(g20862_Points) = 0 /\ num_edges_20862(g20862_Edges) = 0
        /\ size_26021(g26021_nodes) = 0 /\ num_edges_26021(g26021_adjacency) = 0
  /\ firstRet = <<>> => NoEdgeAnywhere
  /\ (last.op = "add_node" /\ last.afterClear) =>
        /\ index_1703(g1703_nodes, ret.g1703) = 0
        /\ index_20558(ret.g20558) = 0
        /\ index_20862(ret.g20862) = 0
        /\ index_26021(ret.g26021) = 0

\* add_node was just called on a graph cleared while it held several nodes
C7_Witness ==
  /\ last.op = "add_node"
  /\ last.afterClear
  /\ last.cleared >= 2

\* j is recorded in node i's adjacency entry
Recorded_26021(i, j) ==
  \E p \in 0..(Len(At(g26021_adjacency, i)) - 1) : At(At(g26021_adjacency, i), p) = j

\* C8: in Graph-26021 the adjacency relation is symmetric in every reachable
\* state: j is in node i's entry iff i is in node j's entry, and
\* has_edge(a,b) == has_edge(b,a) for all valid a, b.
C8_AdjacencySymmetric ==
  /\ Len(g26021_adjacency) = size_26021(g26021_nodes)
  /\ \A i, j \in Ids_26021 :
        /\ Recorded_26021(i, j) <=> Recorded_26021(j, i)
        /\ has_edge_26021(g26021_adjacency, node_26021(i), node_26021(j))
              = has_edge_26021(g26021_adjacency, node_26021(j), node_26021(i))

\* two edges between distinct nodes are recorded
C8_Witness ==
  /\ \E i, j \in Ids_26021 : i # j /\ Recorded_26021(i, j)
  /\ num_edges_26021(g26021_adjacency) >= 2
  /\ ~loopCalled

\* C9: in Graph-26021 num_edges(), half the sum of the adjacency-entry sizes,
\* equals the number of distinct unordered pairs {i,j} with j recorded as a
\* neighbour of i.
C9_NumEdgesCountsPairs ==
  num_edges_26021(g26021_adjacency)
     = Cardinality({{p[1], p[2]} : p \in {q \in Ids_26021 \X Ids_26021 : Recorded_26021(q[1], q[2])}})

\* two edges are recorded and add_edge was just repeated on a connected pair
C9_Witness ==
  /\ num_edges_26021(g26021_adjacency) >= 2
  /\ last.op = "add_edge"
  /\ FirstOf(last.a, last.b).ret # ret

\* an incident walk that has reached n.edge_end()
IncidentWalkDone ==
  /\ walk.kind = "incident"
  /\ IncidentEq_26021(walk.it, node_edge_end_26021(g26021_adjacency, WalkNode))

C11_RepeatEqualsFirst1703 ==
  [][(/\ last'.op = "add_edge"
      /\ last'.a # last'.b
      /\ Called(last'.a, last'.b))
     => /\ num_edges_1703(g1703_edges') = num_edges_1703(g1703_edges)
        /\ EdgeEq_1703(ret'.g1703, FirstOf(last'.a, last'.b).ret.g1703)
        /\ EdgeEq_1703(FirstOf(last'.a, last'.b).ret.g1703, ret'.g1703)]_vars

\* C12: in Graph-20862, after add_edge(a,b) the call add_edge(b,a) leaves
\* num_edges() unchanged and returns an Edge whose stored index is that of the
\* existing entry, an index less than num_edges(), the index the first call
\* returned.
C12_ReversedReturnsStored20862 ==
  [][(/\ last'.op = "add_edge"
      /\ last'.a # last'.b
      /\ Called(last'.a, last'.b)
      /\ FirstOf(last'.a, last'.b).a = last'.b)
     => /\ num_edges_20862(g20862_Edges') = num_edges_20862(g20862_Edges)
        /\ ULess(ret'.g20862.id, num_edges_20862(g20862_Edges'))
        /\ At(g20862_Edges', ret'.g20862.id) = <<last'.b, last'.a>>
        /\ ret'.g20862 = FirstOf(last'.a, last'.b).ret.g20862]_vars

\* C13: in Graph-1703, for distinct valid nodes a and b that are not yet
\* connected, add_edge(a,b) returns an Edge e whose edge id designates the slot
\* of the edge list that was just appended, so that e.node1() == a and
\* e.node2() == b whatever the reads deliver.
C13_NewEdgeEndpoints1703 ==
  [][(/\ last'.op = "add_edge"
      /\ last'.a # last'.b
      /\ ~Called(last'.a, last'.b))
     => /\ ret'.g1703.edgeid = num_edges_1703(g1703_edges') - 1
        /\ \A n \in node1_1703(g1703_edges', ret'.g1703) :
              NodeEq_1703(n, node_1703(g1703_nodes', last'.a))
        /\ \A n \in node2_1703(g1703_edges', ret'.g1703) :
              NodeEq_1703(n, node_1703(g1703_nodes', last'.b))]_vars

\* C14: in Graph-20558, for all distinct valid nodes a and b, whether or not
\* the pair is already connected and in either order, add_edge(a,b) returns an
\* Edge e with e.node1() == a and e.node2() == b.
C14_ReturnedEndpoints20558 ==
  [][(/\ last'.op = "add_edge"
      /\ last'.a # last'.b)
     => /\ NodeEq_20558(node1_20558(g20558_edges', ret'.g20558), node_20558(last'.a))
        /\ NodeEq_20558(node2_20558(g20558_edges', ret'.g20558), node_20558(last'.b))]_vars

\* C15: in Graph-26021, an Edge handle e returned by add_edge(a,b) for distinct
\* valid nodes is not invalidated by later add_node and add_edge calls (no
\* clear): its endpoints are still valid nodes, {e.node1(), e.node2()} is still
\* {a,b}, and e equals the Edge a repeated add_edge(a,b) or add_edge(b,a)
\* returns, a call that changes nothing.
C15_EdgeHandleStays ==
  \A k \in 1..Len(firstRet) :
     LET a   == firstRet[k].a
         b   == firstRet[k].b
         e   == firstRet[k].ret.g26021
         rab == add_edge_26021(g26021_adjacency, node_26021(a), node_26021(b))
         rba == add_edge_26021(g26021_adjacency, node_26021(b), node_26021(a))
     IN  a # b =>
           /\ has_node_assert_26021(g26021_nodes, node1_26021(e))
           /\ has_node_assert_26021(g26021_nodes, node2_26021(e))
           /\ {index_26021(node1_26021(e)), index_26021(node2_26021(e))} = {a, b}
           /\ rab.adj = g26021_adjacency /\ EdgeEq_26021(e, rab.ret) /\ EdgeEq_26021(rab.ret, e)
           /\ rba.adj = g26021_adjacency /\ EdgeEq_26021(e, rba.ret) /\ EdgeEq_26021(rba.ret, e)

\* the first edge was added between nodes 0 and 1, then a third node and a
\* second edge were added, and add_edge was repeated on the first pair with the
\* arguments swapped
C15_Witness ==
  /\ Len(firstRet) = 2
  /\ {firstRet[1].a, firstRet[1].b} = {0, 1}
  /\ firstRet[2].a # firstRet[2].b
  /\ Len(issued) = 3
  /\ last.op = "add_edge"
  /\ last.a = firstRet[1].b
  /\ last.b = firstRet[1].a

\* the Node handles a caller holds: those returned by add_node since
\* construction or clear() and, right after a clear(), those returned before it
HeldHandles ==
  {issued[k] : k \in 1..Len(issued)}
     \cup (IF last.op = "clear" THEN {last.stale[k] : k \in 1..Len(last.stale)} ELSE {})

\* C16: in Graph-1703 and Graph-20558, has_node(n) is true iff n was produced
\* by this graph and its identifier is less than the current num_nodes(); in
\* particular has_node(n) is false right after clear() for a handle n issued
\* before it.
C16_HasNodeCurrent ==
  \A h \in HeldHandles :
     /\ has_node_1703(h.g1703)
           <=> (h.g1703.g = This /\ h.g1703.uid < size_1703(g1703_nodes))
     /\ has_node_20558(This, h.g20558)
           <=> (h.g20558.m_ptr_graph = This /\ h.g20558.m_index < size_20558(g20558_nodes))

\* C17: in Graph-20862, for every Node handle n, the default-constructed
\* invalid Node (null graph, identifier size_type(-1)) and handles issued
\* before a clear() included, has_node(n) is true iff n references this graph
\* and n.index() < num_nodes().
C17_HasNodeEveryHandle20862 ==
  \A n \in {h.g20862 : h \in HeldHandles} \cup {NodeDefault_20862} :
     has_node_20862(g20862_Points, n)
        <=> (n.graph = This /\ ULess(index_20862(n), size_20862(g20862_Points)))

\* the node vector of the Graph-26021 object at address g
NodesOf_26021(g) == IF g = This THEN g26021_nodes ELSE other.g26021_nodes

\* the valid Node handles of the two Graph-26021 objects
Handles_26021 ==
  {issued[k].g26021 : k \in 1..Len(issued)}
     \cup {OfOther(node_26021(i), "m_graph_ptr") : i \in 0..(size_26021(other.g26021_nodes) - 1)}

\* C18: in Graph-26021, for any two Node handles x and y obtained from
\* add_node()/node() of any Graph objects, of different sizes or not, x == y
\* completes without an assertion failure and is true iff both reference the
\* same graph and hold the same identifier; handles of different graphs
\* compare unequal.
C18_NodeEqAcrossGraphs26021 ==
  \A x, y \in Handles_26021 :
     /\ has_node_assert_26021(NodesOf_26021(x.m_graph_ptr), y)
     /\ NodeEq_26021(x, y)
           <=> (x.m_graph_ptr = y.m_graph_ptr /\ x.m_node_index = y.m_node_index)

\* the Edge handles of Graph-1703 a caller holds, each with the pair of node
\* indices it was obtained for: the handle returned by the first add_edge on
\* each pair of distinct nodes, and edge(i) for every i < num_edges()
EdgeHandles_1703 ==
  {[e |-> firstRet[k].ret.g1703, pair |-> {firstRet[k].a, firstRet[k].b}] :
      k \in {j \in 1..Len(firstRet) : firstRet[j].a # firstRet[j].b}}
     \cup {[e    |-> edge_1703(g1703_nodes, g1703_edges, i),
            pair |-> {At(g1703_edges, i).node_a.uid, At(g1703_edges, i).node_b.uid}] :
              i \in 0..(num_edges_1703(g1703_edges) - 1)}

\* C19: in Graph-1703, two Edge handles returned by add_edge() or edge()
\* compare equal iff they connect the same unordered pair of nodes of the
\* graph; handles for different pairs compare unequal.
C19_EdgeEqIffSamePair1703 ==
  \A x, y \in EdgeHandles_1703 :
     EdgeEq_1703(x.e, y.e) <=> (x.pair = y.pair)

\* the valid Node handles of the two Graph-20558 objects
Handles_20558 ==
  {issued[k].g20558 : k \in 1..Len(issued)}
     \cup {OfOther(node_20558(i), "m_ptr_graph") : i \in 0..(size_20558(other.g20558_nodes) - 1)}

ExactlyOne(p, q, r) == Cardinality({i \in 1..3 : <<p, q, r>>[i]}) = 1

\* C20: in Graph-1703 and Graph-20558 the Node ordering obeys trichotomy: for
\* any two valid Node handles x and y, of the same or of different Graph
\* objects, exactly one of x == y, x < y and y < x is true.
C20_NodeTrichotomy ==
  /\ \A x, y \in Handles_1703 :
        ExactlyOne(NodeEq_1703(x, y), NodeLess_1703(x, y), NodeLess_1703(y, x))
  /\ \A x, y \in Handles_20558 :
        ExactlyOne(NodeEq_20558(x, y), NodeLess_20558(x, y), NodeLess_20558(y, x))

\* C21: in Graph-26021, in any state reached by add_node and add_edge on
\* distinct valid nodes, for 0 <= i < num_edges() edge(i) returns an Edge whose
\* endpoints satisfy has_edge(node1(), node2()), whatever the read delivers,
\* and edge(i) != edge(j) whenever i != j.
C21_EdgeByIndex26021 ==
  ~loopCalled =>
     \A i \in 0..(num_edges_26021(g26021_adjacency) - 1) :
        \A e \in edge_26021(g26021_adjacency, i) :
           /\ has_edge_26021(g26021_adjacency, node1_26021(e), node2_26021(e))
           /\ \A j \in 0..(num_edges_26021(g26021_adjacency) - 1) :
                 i # j => \A f \in edge_26021(g26021_adjacency, j) : ~EdgeEq_26021(e, f)

\* C22: Graph-20558 and Graph-26021, driven side by side by the same sequence
\* of add_node, clear and add_edge(a,b) on distinct valid nodes, agree after
\* every step on num_nodes(), on num_edges() and on has_edge(node(i), node(j))
\* for all i, j < num_nodes().
C22_EdgeListMatchesAdjacency ==
  ~loopCalled =>
     /\ size_20558(g20558_nodes) = size_26021(g26021_nodes)
     /\ num_edges_20558(g20558_edges) = num_edges_26021(g26021_adjacency)
     /\ \A i, j \in Ids_26021 :
           has_edge_20558(g20558_edges, node_20558(i), node_20558(j))
              = has_edge_26021(g26021_adjacency, node_26021(i), node_26021(j))

\* three nodes, two edges, and add_edge was just repeated on the second pair
\* with the arguments swapped
C22_Witness ==
  /\ ~loopCalled
  /\ size_20558(g20558_nodes) = 3
  /\ Len(firstRet) = 2
  /\ num_edges_20558(g20558_edges) = 2
  /\ last.op = "add_edge"
  /\ last.a = firstRet[2].b
  /\ last.b = firstRet[2].a

\* C23: in Graph-1703, whose answer to an out-of-range node(i) or edge(i) and
\* to a self-loop is the invalid sentinel, add_edge(a,b) where a or b is a node
\* of a different Graph object also returns the invalid Edge and leaves
\* num_edges() unchanged.
C23_ForeignNodeRejected1703 ==
  [][last'.op = "add_edge_foreign"
     => /\ ret'.g1703 = EdgeDefault_1703
        /\ num_edges_1703(g1703_edges') = num_edges_1703(g1703_edges)]_vars

\* the indices handed to node(i) and edge(i): in range, the first one out of
\* range, the ones after it, and size_type(-1)
Indices_20862 == 0..(MaxNodes + 1) \cup {NPos}

\* C24: in Graph-20862, edge(i) returns the invalid sentinel Edge (null graph,
\* identifier size_type(-1)) for every i >= num_edges(), as node(i) returns the
\* invalid Node for every i >= num_nodes(); for i < num_edges() it returns a
\* handle with identifier i.
C24_EdgeOutOfRange20862 ==
  \A i \in Indices_20862 :
     /\ ~ULess(i, size_20862(g20862_Points))
           => node_20862(g20862_Points, i) = NodeDefault_20862
     /\ ~ULess(i, num_edges_20862(g20862_Edges))
           => edge_20862(g20862_Edges, i) = EdgeDefault_20862
     /\ ULess(i, num_edges_20862(g20862_Edges))
           => edge_20862(g20862_Edges, i) = Edge_20862(i, This)

\* the Node handles for identifier i of Graph-26021 a caller can hold, given
\* the handles add_node returned, the node vector and the adjacency lists:
\* from add_node, from node(i), from a NodeIterator stepped i times, and from
\* node1()/node2() of the edges the incident iterators deliver
HandlesFor_26021(iss, nodes, adj, i) ==
  LET its   == {NodeIterator_26021(This, k) : k \in 0..(size_26021(nodes) - 1)}
      edges == {IncidentDeref_26021(adj, IncidentIterator_26021(This, a, p)) :
                  <<a, p>> \in {q \in (0..(Len(adj) - 1)) \X (0..MaxNodes) :
                                  q[2] < Len(At(adj, q[1]))}}
      all   == {iss[k].g26021 : k \in 1..Len(iss)}
                  \cup {node_26021(k) : k \in 0..(size_26021(nodes) - 1)}
                  \cup {NodeIterDeref_26021(it) : it \in its}
                  \cup {node1_26021(e) : e \in edges} \cup {node2_26021(e) : e \in edges}
  IN  {h \in all : index_26021(h) = i}

\* C25: in Graph-26021, a write through value() on a Node handle for
\* identifier i is observed by value() on every handle for identifier i of the
\* same graph (from add_node, node(i), a NodeIterator or Edge::node1/node2),
\* and a later add_node or add_edge call changes no node's value.
C25_ValueSharedByHandles ==
  [][/\ last'.op = "write" =>
           \A h \in HandlesFor_26021(issued', g26021_nodes', g26021_adjacency', last'.i) :
              value_26021(g26021_nodes', h) = last'.v
     /\ last'.op \in {"add_node", "add_edge"} =>
           \A i \in Ids_26021 :
              \A h \in HandlesFor_26021(issued', g26021_nodes', g26021_adjacency', i) :
                 value_26021(g26021_nodes', h) = value_26021(g26021_nodes, node_26021(i))]_vars

\* a value was written to a node that has an edge, and a node was added later
C25_Witness ==
  /\ last.op = "add_node"
  /\ \E i \in Ids_26021 :
        /\ value_26021(g26021_nodes, node_26021(i)) = NewValue
        /\ degree_26021(g26021_adjacency, node_26021(i)) >= 1

\* a node walk that has reached node_end()
NodeWalkDone ==
  /\ walk.kind = "node"
  /\ NodeIterEq_26021(walk.it, node_end_26021(g26021_nodes))

AtEmittedSlot_26021(adj, it) ==
  /\ EdgeDerefInBounds_26021(adj, it)
  /\ it.m_node1_index < At(At(adj, it.m_node1_index), it.m_edge_index)

\* C27: in Graph-26021, in every reachable state edge_begin() either equals
\* edge_end() or is positioned at an existing adjacency slot (node i, position
\* p) with i < num_nodes(), p < degree(node(i)) and neighbour identifier
\* strictly greater than i; in particular edge_begin() == edge_end() for a
\* graph with at least one node and no edges.
C27_EdgeBeginAtEdgeOrEnd ==
  /\ \/ EdgeIterEq_26021(edge_begin_26021, edge_end_26021(g26021_adjacency))
     \/ AtEmittedSlot_26021(g26021_adjacency, edge_begin_26021)
  /\ (size_26021(g26021_nodes) >= 1 /\ num_edges_26021(g26021_adjacency) = 0)
        => EdgeIterEq_26021(edge_begin_26021, edge_end_26021(g26021_adjacency))

RECURSIVE AdvancesToEnd_26021(_, _, _)
AdvancesToEnd_26021(adj, it, fuel) ==
  IF EdgeIterEq_26021(it, edge_end_26021(adj)) THEN 0
  ELSE IF fuel = 0 THEN 2 * (SumSizes(adj, 0) + Len(adj) + 1)
  ELSE EdgeIncrAdvances_26021(adj, it)
          + AdvancesToEnd_26021(adj, EdgeIncr_26021(adj, it), fuel - 1)

\* C29: in Graph-26021, on a graph that is not mutated meanwhile, repeatedly
\* applying operator++ to an EdgeIterator started at edge_begin() makes it
\* equal to edge_end() after at most (sum of all degrees + num_nodes())
\* elementary advances, and a walk never holds a position past the sentinel.
C29_EdgeWalkTerminates ==
  /\ AdvancesToEnd_26021(g26021_adjacency, edge_begin_26021,
                         SumSizes(g26021_adjacency, 0) + Len(g26021_adjacency) + 1)
        <= SumSizes(g26021_adjacency, 0) + size_26021(g26021_nodes)
  /\ walk.kind = "edge" =>
        \/ walk.it.m_node1_index < size_26021(g26021_nodes)
        \/ EdgeIterEq_26021(walk.it, edge_end_26021(g26021_adjacency))

\* the handles edge(i), i < num_edges(), of Graph-20862
Edges_20862 ==
  {edge_20862(g20862_Edges, i) : i \in 0..(num_edges_20862(g20862_Edges) - 1)}

\* e < f, and neither e < f nor f < e, on the edges of the graph under test
Less30(e, f) == EdgeLess_20862(g20862_Points, g20862_Edges, e, f)

Incomparable30(e, f) == ~Less30(e, f) /\ ~Less30(f, e)

\* C30: in Graph-20862, Edge::operator< is a strict weak order on the edges of
\* one graph: it is irreflexive and transitive, and incomparability (neither
\* e < f nor f < e) is transitive.
C30_EdgeLessStrictWeak20862 ==
  /\ \A e \in Edges_20862 : ~Less30(e, e)
  /\ \A e, f, g \in Edges_20862 :
        /\ (Less30(e, f) /\ Less30(f, g)) => Less30(e, g)
        /\ (Incomparable30(e, f) /\ Incomparable30(f, g)) => Incomparable30(e, g)

\* the valid Node handles of the two Graph-20862 objects
Handles_20862 ==
  {node_20862(g20862_Points, i) : i \in 0..(size_20862(g20862_Points) - 1)}
     \cup {OfOther(node_20862(other.g20862_Points, i), "graph") :
              i \in 0..(size_20862(other.g20862_Points) - 1)}

\* C31: in Graph-20862, has_edge(a,b) is false whenever a or b is a Node
\* handle of a different Graph object, even when the handles' indices are the
\* endpoints of an edge stored in this graph.
C31_HasEdgeForeign20862 ==
  \A a, b \in Handles_20862 :
     (a.graph = Other \/ b.graph = Other) => ~has_edge_20862(g20862_Edges, a, b)

\* C32: in all four implementations add_node and add_edge on valid nodes are
\* purely additive: num_nodes() never goes down, the index and the position
\* of every existing node are unchanged, has_edge(a,b) never turns from true
\* to false, add_node leaves num_edges() unchanged and add_edge leaves
\* num_nodes() unchanged.
C32_AdditionsOnlyAdd ==
  [][last'.op \in {"add_node", "add_edge"} =>
        /\ size_1703(g1703_nodes') >= size_1703(g1703_nodes)
        /\ size_20558(g20558_nodes') >= size_20558(g20558_nodes)
        /\ size_20862(g20862_Points') >= size_20862(g20862_Points)
        /\ size_26021(g26021_nodes') >= size_26021(g26021_nodes)
        /\ \A i \in 0..(size_26021(g26021_nodes) - 1) :
              /\ index_1703(g1703_nodes', node_1703(g1703_nodes', i))
                    = index_1703(g1703_nodes, node_1703(g1703_nodes, i))
              /\ position_1703(g1703_nodes', node_1703(g1703_nodes', i))
                    = position_1703(g1703_nodes, node_1703(g1703_nodes, i))
              /\ index_20558(node_20558(i)) = i
              /\ position_20558(g20558_nodes', node_20558(i))
                    = position_20558(g20558_nodes, node_20558(i))
              /\ index_20862(node_20862(g20862_Points', i))
                    = index_20862(node_20862(g20862_Points, i))
              /\ position_20862(g20862_Points', node_20862(g20862_Points', i))
                    = position_20862(g20862_Points, node_20862(g20862_Points, i))
              /\ index_26021(node_26021(i)) = i
              /\ position_26021(g26021_nodes', node_26021(i))
                    = position_26021(g26021_nodes, node_26021(i))
        /\ \A a, b \in 0..(size_26021(g26021_nodes) - 1) :
              /\ has_edge_1703(g1703_edges, node_1703(g1703_nodes, a), node_1703(g1703_nodes, b))
                    => has_edge_1703(g1703_edges', node_1703(g1703_nodes', a), node_1703(g1703_nodes', b))
              /\ has_edge_20558(g20558_edges, node_20558(a), node_20558(b))
                    => has_edge_20558(g20558_edges', node_20558(a), node_20558(b))
              /\ has_edge_20862(g20862_Edges, node_20862(g20862_Points, a), node_20862(g20862_Points, b))
                    => has_edge_20862(g20862_Edges', node_20862(g20862_Points', a),
                                      node_20862(g20862_Points', b))
              /\ has_edge_26021(g26021_adjacency, node_26021(a), node_26021(b))
                    => has_edge_26021(g26021_adjacency', node_26021(a), node_26021(b))
        /\ last'.op = "add_node" =>
              /\ num_edges_1703(g1703_edges') = num_edges_1703(g1703_edges)
              /\ num_edges_20558(g20558_edges') = num_edges_20558(g20558_edges)
              /\ num_edges_20862(g20862_Edges') = num_edges_20862(g20862_Edges)
              /\ num_edges_26021(g26021_adjacency') = num_edges_26021(g26021_adjacency)
        /\ last'.op = "add_edge" =>
              /\ size_1703(g1703_nodes') = size_1703(g1703_nodes)
              /\ size_20558(g20558_nodes') = size_20558(g20558_nodes)
              /\ size_20862(g20862_Points') = size_20862(g20862_Points)
              /\ size_26021(g26021_nodes') = size_26021(g26021_nodes)]_vars

\* two edges are stored among three nodes of differing positions, the last
\* call being an add_edge
C32_Witness ==
  /\ last.op = "add_edge"
  /\ num_edges_20862(g20862_Edges) = 2
  /\ size_20862(g20862_Points) = 3
  /\ position_20862(g20862_Points, node_20862(g20862_Points, 0))
        # position_20862(g20862_Points, node_20862(g20862_Points, 1))

\* the unordered pair of node indices of edge(i), i < num_edges()
EndPair_1703(nodes, edges, i) ==
  LET e == edge_1703(nodes, edges, i)
  IN  {index_1703(nodes, n) : n \in node1_1703(edges, e) \cup node2_1703(edges, e)}

EndPair_20558(edges, i) ==
  LET e == Edge_20558(i, This)
  IN  {index_20558(node1_20558(edges, e)), index_20558(node2_20558(edges, e))}

EndPair_20862(Points, Edges, i) ==
  LET e == edge_20862(Edges, i)
  IN  {index_20862(node1_20862(Points, Edges, e)), index_20862(node2_20862(Points, Edges, e))}

\* the pairs add_edge inserted since construction/clear, in the order of the
\* calls: Graph-1703 inserts nothing for a == b
Inserted_1703 == SelectSeq(firstRet, LAMBDA c : c.a # c.b)

Inserted_20558 == firstRet

Inserted_20862 == firstRet

\* C33: in Graph-1703, Graph-20558 and Graph-20862 edge indices are stable
\* under additions: for i < num_edges() the unordered endpoint pair of edge(i)
\* is the same before and after an add_node or add_edge call, and edge(i)
\* connects exactly the i-th successfully inserted pair.
C33_EdgeIndicesStable ==
  [][last'.op \in {"add_node", "add_edge"} =>
        /\ \A i \in 0..(num_edges_1703(g1703_edges) - 1) :
              EndPair_1703(g1703_nodes', g1703_edges', i) = EndPair_1703(g1703_nodes, g1703_edges, i)
        /\ \A i \in 0..(num_edges_20558(g20558_edges) - 1) :
              EndPair_20558(g20558_edges', i) = EndPair_20558(g20558_edges, i)
        /\ \A i \in 0..(num_edges_20862(g20862_Edges) - 1) :
              EndPair_20862(g20862_Points', g20862_Edges', i)
                 = EndPair_20862(g20862_Points, g20862_Edges, i)
        /\ Len(Inserted_1703') = num_edges_1703(g1703_edges')
        /\ Len(Inserted_20558') = num_edges_20558(g20558_edges')
        /\ Len(Inserted_20862') = num_edges_20862(g20862_Edges')
        /\ \A i \in 0..(num_edges_1703(g1703_edges') - 1) :
              EndPair_1703(g1703_nodes', g1703_edges', i)
                 = {Inserted_1703'[i + 1].a, Inserted_1703'[i + 1].b}
        /\ \A i \in 0..(num_edges_20558(g20558_edges') - 1) :
              EndPair_20558(g20558_edges', i)
                 = {Inserted_20558'[i + 1].a, Inserted_20558'[i + 1].b}
        /\ \A i \in 0..(num_edges_20862(g20862_Edges') - 1) :
              EndPair_20862(g20862_Points', g20862_Edges', i)
                 = {Inserted_20862'[i + 1].a, Inserted_20862'[i + 1].b}]_vars

\* an add_edge call has just inserted a second pair of distinct nodes behind
\* the first one
C33_Witness ==
  /\ last.op = "add_edge"
  /\ last.a # last.b
  /\ num_edges_1703(g1703_edges) = 2
  /\ num_edges_20862(g20862_Edges) = 2
  /\ EndPair_20862(g20862_Points, g20862_Edges, 1) = {last.a, last.b}

\* C34: in Graph-26021, in every state reached by add_node, clear and add_edge
\* on two distinct valid nodes, no adjacency entry holds its own node
\* identifier or the same neighbour twice, every recorded neighbour identifier
\* is less than num_nodes(), and degree(n) is the number of nodes m with
\* has_edge(n, m) true.
C34_AdjacencyWellFormed ==
  \A n \in 0..(size_26021(g26021_nodes) - 1) :
     LET entry == At(g26021_adjacency, n)
     IN  /\ \A p \in 0..(Len(entry) - 1) :
               /\ At(entry, p) # n
               /\ At(entry, p) >= 0 /\ At(entry, p) < size_26021(g26021_nodes)
               /\ \A q \in 0..(Len(entry) - 1) : p # q => At(entry, p) # At(entry, q)
         /\ degree_26021(g26021_adjacency, node_26021(n))
               = Cardinality({m \in 0..(size_26021(g26021_nodes) - 1) :
                                has_edge_26021(g26021_adjacency, node_26021(n), node_26021(m))})

\* some node has two neighbours
C34_Witness ==
  \E n \in 0..(size_26021(g26021_nodes) - 1) :
     /\ degree_26021(g26021_adjacency, node_26021(n)) = 2
     /\ has_edge_26021(g26021_adjacency, node_26021(n), node_26021((n + 1) % 3))
     /\ has_edge_26021(g26021_adjacency, node_26021(n), node_26021((n + 2) % 3))

====
